---- MODULE Spec2Model ----
(***************************************************************************)
(* Model of wine_review_summarizer.py (chunk_text, summarize_group) and of *)
(* data/validator.py (validate_wine_reviews).                              *)
(*                                                                         *)
(* Text model.  A text is the sequence of word pieces the BART tokenizer   *)
(* cuts it into; a word piece carries its leading space, so joining texts  *)
(* with " " concatenates their pieces.  tokenizer.encode wraps the pieces  *)
(* in the two special tokens <s> and </s> unless add_special_tokens=False; *)
(* tokenizer.decode(..., skip_special_tokens=True) drops special tokens.   *)
(* Re-encoding a decoded window is taken to give back the window's pieces. *)
(***************************************************************************)
EXTENDS Integers, Sequences, FiniteSets, TLC

(***************************************************************************)
(* Bounds of the model.                                                    *)
(***************************************************************************)
\* chunk_text's default window, max_tokens = 900 in the source, scaled down.
DefaultMaxTokens == 7
\* Number of tokens of the fixed instruction prefix `intro`.
IntroLen == 2
\* A group holds at most MaxReviews texts of at most MaxReviewLen pieces.
MaxReviews == 2
MaxReviewLen == 7
\* Caller budgets: min_len in 0..MaxMinLen, max_len in 0..MaxMaxLen.
MaxMinLen == 1
MaxMaxLen == 6
\* Chunker inputs: at most MaxChunkTexts texts of at most MaxTextLen pieces,
\* windows of 1..MaxWindow tokens.
MaxChunkTexts == 2
MaxTextLen == 3
MaxWindow == 4
\* Validator inputs: files of at most MaxRecords records, MaxEdits line edits.
MaxRecords == 2
MaxEdits == 1

(***************************************************************************)
(* Program constants.                                                      *)
(***************************************************************************)
\* dynamic_max = min(max_len, max(min_len + 5, int(input_len * 0.8)))
BudgetFloorPad == 5
\* 0.8 = RatioNum / RatioDen
RatioNum == 4
RatioDen == 5
\* validator: 9 key lines plus one blank line per record
RecordLines == 9
BlockLines == 10

VARIABLES
    \* summarize_group
    review_texts, min_len, max_len, pc, chunks, summaries, combined_chunks,
    final_summaries, summary_text, calls,
    \* chunk_text on its own
    c_texts, c_max_tokens, c_tokens, c_windows, c_chunks, c_pc,
    \* validate_wine_reviews
    v_lines, v_result, v_pc

rvars == <<review_texts, min_len, max_len, pc, chunks, summaries,
           combined_chunks, final_summaries, summary_text, calls>>
cvars == <<c_texts, c_max_tokens, c_tokens, c_windows, c_chunks, c_pc>>
vvars == <<v_lines, v_result, v_pc>>
vars == <<rvars, cvars, vvars>>

(***************************************************************************)
(* Python builtins.                                                        *)
(***************************************************************************)
Min(a, b) == IF a <= b THEN a ELSE b
Max(a, b) == IF a >= b THEN a ELSE b

\* " ".join(texts)
RECURSIVE JoinSpace(_)
JoinSpace(texts) ==
    IF texts = <<>> THEN <<>> ELSE Head(texts) \o JoinSpace(Tail(texts))

(***************************************************************************)
(* Tokenizer (AutoTokenizer for facebook/bart-large-cnn).                  *)
(***************************************************************************)
BOS == "<s>"
EOS == "</s>"
IsSpecial(t) == t \in {BOS, EOS}

\* tokenizer.encode(text, add_special_tokens=...)
encode(text, add_special_tokens) ==
    IF add_special_tokens THEN <<BOS>> \o text \o <<EOS>> ELSE text

\* tokenizer.decode(tokens, skip_special_tokens=True)
NotSpecial(t) == ~IsSpecial(t)
decode(tokens) == SelectSeq(tokens, NotSpecial)

(***************************************************************************)
(* chunk_text.                                                             *)
(***************************************************************************)
\* Mutant of Slice: tokens[i:i + max_tokens + 1], one token too many.
Slice_OneTooMany(tokens, i, j) == SubSeq(tokens, i + 1, Min(j + 1, Len(tokens)))

\* tokens[i:i + max_tokens], i counted from 0 as in Python
Slice(tokens, i, j) == SubSeq(tokens, i + 1, Min(j, Len(tokens)))

\* for i in range(0, len(tokens), max_tokens): the windows, in order
RECURSIVE ChunkWindowsFrom(_, _, _)
ChunkWindowsFrom(tokens, max_tokens, i) ==
    IF i >= Len(tokens) THEN <<>>
    ELSE <<Slice(tokens, i, i + max_tokens)>>
         \o ChunkWindowsFrom(tokens, max_tokens, i + max_tokens)

\* Mutant of ChunkWindows: range(1, len(tokens), max_tokens).
ChunkWindows_FromOne(tokens, max_tokens) == ChunkWindowsFrom(tokens, max_tokens, 1)

ChunkWindows(tokens, max_tokens) == ChunkWindowsFrom(tokens, max_tokens, 0)

\* tokens = tokenizer.encode(" ".join(texts), truncation=False)
ChunkTokens(texts) == encode(JoinSpace(texts), TRUE)

\* Mutant of chunk_text: the whole text as one chunk, never split.
chunk_text_NoSplit(texts, max_tokens) == <<decode(ChunkTokens(texts))>>

chunk_text(texts, max_tokens) ==
    LET w == ChunkWindows(ChunkTokens(texts), max_tokens)
    IN  [k \in 1..Len(w) |-> decode(w[k])]

(***************************************************************************)
(* Length budget of one chunk (summarize_group, the body of both loops).   *)
(***************************************************************************)
\* Mutant of ScaleLen: round(input_len * 0.8), to the nearest integer.
ScaleLen_Round(input_len) ==
    (2 * input_len * RatioNum + RatioDen) \div (2 * RatioDen)

\* int(input_len * 0.8): truncation toward zero of a non-negative product
ScaleLen(input_len) == (input_len * RatioNum) \div RatioDen

DynamicMax(input_len, minl, maxl) ==
    Min(maxl, Max(minl + BudgetFloorPad, ScaleLen(input_len)))

\* intro = "Summarize the following reviews for a group of wines.\n"
Intro == [i \in 1..IntroLen |-> "intro"]

\* What one loop iteration hands to summarizer(...)
Request(chunk, passNo, k) ==
    LET input_len == Len(encode(chunk, FALSE))
    IN  [pass |-> passNo, chunk |-> k, text |-> Intro \o chunk,
         max_length |-> DynamicMax(input_len, min_len, max_len),
         min_length |-> min_len]

(***************************************************************************)
(* Summarization capability (transformers pipeline): it either raises or   *)
(* returns a summary whose length lies between min_length and max_length;  *)
(* the model lets it return the shortest or the longest such summary.      *)
(***************************************************************************)
SummaryOfLen(n) == [i \in 1..n |-> "s"]

SummarizerResults(req) ==
    LET hi == Max(0, req.max_length)
        lo == Min(Max(0, req.min_length), hi)
    IN  {SummaryOfLen(n) : n \in {lo, hi}}

Unset == <<"<unset>">>

(***************************************************************************)
(* summarize_group.                                                        *)
(***************************************************************************)
ListsOf(S, n) == UNION {[1..k -> S] : k \in 0..n}

ReviewTexts == ListsOf({"a"}, MaxReviewLen)

RInit ==
    /\ review_texts \in ListsOf(ReviewTexts, MaxReviews)
    /\ min_len \in 0..MaxMinLen
    /\ max_len \in 0..MaxMaxLen
    /\ pc = "start"
    /\ chunks = <<>>
    /\ summaries = <<>>
    /\ combined_chunks = <<>>
    /\ final_summaries = <<>>
    /\ summary_text = Unset
    /\ calls = <<>>

RIdle ==
    /\ review_texts = <<>>
    /\ min_len = 0
    /\ max_len = 0
    /\ pc = "idle"
    /\ chunks = <<>>
    /\ summaries = <<>>
    /\ combined_chunks = <<>>
    /\ final_summaries = <<>>
    /\ summary_text = Unset
    /\ calls = <<>>

\* chunks = chunk_text(reviews); summaries = []
Start ==
    /\ pc = "start"
    /\ chunks' = chunk_text(review_texts, DefaultMaxTokens)
    /\ summaries' = <<>>
    /\ pc' = "pass1"
    /\ UNCHANGED <<review_texts, min_len, max_len, combined_chunks,
                   final_summaries, summary_text, calls>>
    /\ UNCHANGED <<cvars, vvars>>

\* Mutant of Pass1Call: a failed call is swallowed (an empty summary stands
\* in for the chunk) and the loop goes on.
Pass1Call_Swallow ==
    /\ pc = "pass1"
    /\ Len(summaries) < Len(chunks)
    /\ LET k == Len(summaries) + 1
           req == Request(chunks[k], 1, k)
       IN  \/ \E r \in SummarizerResults(req) :
                /\ calls' = Append(calls, [req |-> req, ok |-> TRUE, result |-> r])
                /\ summaries' = Append(summaries, r)
           \/ /\ calls' = Append(calls, [req |-> req, ok |-> FALSE, result |-> <<>>])
              /\ summaries' = Append(summaries, <<>>)
    /\ pc' = "pass1"
    /\ UNCHANGED <<review_texts, min_len, max_len, chunks, combined_chunks,
                   final_summaries, summary_text>>
    /\ UNCHANGED <<cvars, vvars>>

\* one iteration of `for chunk in chunks`; the call returns or raises, and an
\* exception leaves summarize_group
Pass1Call ==
    /\ pc = "pass1"
    /\ Len(summaries) < Len(chunks)
    /\ LET k == Len(summaries) + 1
           req == Request(chunks[k], 1, k)
       IN  \/ \E r \in SummarizerResults(req) :
                /\ calls' = Append(calls, [req |-> req, ok |-> TRUE, result |-> r])
                /\ summaries' = Append(summaries, r)
                /\ pc' = "pass1"
           \/ /\ calls' = Append(calls, [req |-> req, ok |-> FALSE, result |-> <<>>])
              /\ summaries' = summaries
              /\ pc' = "raised"
    /\ UNCHANGED <<review_texts, min_len, max_len, chunks, combined_chunks,
                   final_summaries, summary_text>>
    /\ UNCHANGED <<cvars, vvars>>

\* Mutant of MergeCheck: `if len(summaries) >= 1`, the merge pass always runs.
MergeCheck_AlwaysMerge ==
    /\ pc = "pass1"
    /\ Len(summaries) = Len(chunks)
    /\ combined_chunks' = chunk_text(<<JoinSpace(summaries)>>, DefaultMaxTokens)
    /\ final_summaries' = <<>>
    /\ pc' = "pass2"
    /\ UNCHANGED <<review_texts, min_len, max_len, chunks, summaries,
                   summary_text, calls>>
    /\ UNCHANGED <<cvars, vvars>>

\* if len(summaries) > 1: re-chunk the joined summaries; else summaries[0]
MergeCheck ==
    /\ pc = "pass1"
    /\ Len(summaries) = Len(chunks)
    /\ IF Len(summaries) > 1
       THEN /\ combined_chunks' =
                   chunk_text(<<JoinSpace(summaries)>>, DefaultMaxTokens)
            /\ final_summaries' = <<>>
            /\ pc' = "pass2"
            /\ UNCHANGED summary_text
       ELSE IF Len(summaries) = 1
       THEN /\ summary_text' = summaries[1]
            /\ pc' = "done"
            /\ UNCHANGED <<combined_chunks, final_summaries>>
       ELSE \* summaries[0] on an empty list: IndexError
            /\ pc' = "raised"
            /\ UNCHANGED <<combined_chunks, final_summaries, summary_text>>
    /\ UNCHANGED <<review_texts, min_len, max_len, chunks, summaries, calls>>
    /\ UNCHANGED <<cvars, vvars>>

\* one iteration of `for chunk in combined_chunks`
Pass2Call ==
    /\ pc = "pass2"
    /\ Len(final_summaries) < Len(combined_chunks)
    /\ LET k == Len(final_summaries) + 1
           req == Request(combined_chunks[k], 2, k)
       IN  \/ \E r \in SummarizerResults(req) :
                /\ calls' = Append(calls, [req |-> req, ok |-> TRUE, result |-> r])
                /\ final_summaries' = Append(final_summaries, r)
                /\ pc' = "pass2"
           \/ /\ calls' = Append(calls, [req |-> req, ok |-> FALSE, result |-> <<>>])
              /\ final_summaries' = final_summaries
              /\ pc' = "raised"
    /\ UNCHANGED <<review_texts, min_len, max_len, chunks, summaries,
                   combined_chunks, summary_text>>
    /\ UNCHANGED <<cvars, vvars>>

\* summary_text = " ".join(final_summaries); return summary_text
Finish ==
    /\ pc = "pass2"
    /\ Len(final_summaries) = Len(combined_chunks)
    /\ summary_text' = JoinSpace(final_summaries)
    /\ pc' = "done"
    /\ UNCHANGED <<review_texts, min_len, max_len, chunks, summaries,
                   combined_chunks, final_summaries, calls>>
    /\ UNCHANGED <<cvars, vvars>>


Done == pc \in {"done", "raised"}

(***************************************************************************)
(* chunk_text applied to drawn inputs.                                     *)
(***************************************************************************)
Vocab == {"a", "b"}

CInit ==
    /\ c_texts \in ListsOf(ListsOf(Vocab, MaxTextLen), MaxChunkTexts)
    /\ c_max_tokens \in 1..MaxWindow
    /\ c_tokens = <<>>
    /\ c_windows = <<>>
    /\ c_chunks = <<>>
    /\ c_pc = "start"

CIdle ==
    /\ c_texts = <<>>
    /\ c_max_tokens = 1
    /\ c_tokens = <<>>
    /\ c_windows = <<>>
    /\ c_chunks = <<>>
    /\ c_pc = "idle"

\* chunk_text(c_texts, c_max_tokens), with the tokens and windows it computes
ChunkText ==
    /\ c_pc = "start"
    /\ c_tokens' = ChunkTokens(c_texts)
    /\ c_windows' = ChunkWindows(ChunkTokens(c_texts), c_max_tokens)
    /\ c_chunks' = chunk_text(c_texts, c_max_tokens)
    /\ c_pc' = "done"
    /\ UNCHANGED <<c_texts, c_max_tokens>>
    /\ UNCHANGED <<rvars, vvars>>

(***************************************************************************)
(* validate_wine_reviews.  A line is the sequence of its lexical pieces:   *)
(* the empty line is <<>>, "key: value" is <<key, ":", "value">>.          *)
(***************************************************************************)
expected_keys ==
    <<"wine/name", "wine/wineId", "wine/variant", "wine/year",
      "review/points", "review/time", "review/userId", "review/userName",
      "review/text">>

BlankLine == <<>>
KeyLine(key) == <<key, ":", "value">>
NoColonLine(key) == <<key, "value">>
JunkLine == <<"junk">>

\* line.startswith(expected_key + ":")
StartsWithKey(line, key) == Len(line) >= 2 /\ line[1] = key /\ line[2] = ":"

\* The body of `for i in range(0, len(lines), 10)` from block i on: the first
\* failing check decides the message, no failing check means success.
RECURSIVE ValidateFrom(_, _)
ValidateFrom(lines, i) ==
    IF i >= Len(lines) THEN [valid |-> TRUE, msg |-> "ok"]
    ELSE LET record_lines == Slice(lines, i, i + RecordLines)
             blank_line == lines[i + RecordLines + 1]
         IN  IF i + BlockLines < Len(lines) /\ blank_line # BlankLine
             THEN [valid |-> FALSE, msg |-> "missing blank line"]
             ELSE IF \E j \in 1..Min(Len(expected_keys), Len(record_lines)) :
                        ~StartsWithKey(record_lines[j], expected_keys[j])
             THEN [valid |-> FALSE, msg |-> "unexpected key"]
             ELSE ValidateFrom(lines, i + BlockLines)

validate_wine_reviews(file_lines) ==
    LET lines == IF (Len(file_lines) + 1) % BlockLines = 0
                 THEN Append(file_lines, BlankLine)
                 ELSE file_lines
    IN  IF Len(lines) % BlockLines # 0
        THEN [valid |-> FALSE, msg |-> "not aligned"]
        ELSE ValidateFrom(lines, 0)

\* Input files: well-formed files of up to MaxRecords records, with or
\* without the final blank line, changed by up to MaxEdits line edits.
RecordBlock == [j \in 1..BlockLines |->
                  IF j <= RecordLines THEN KeyLine(expected_keys[j])
                  ELSE BlankLine]

RECURSIVE Blocks(_)
Blocks(r) == IF r = 0 THEN <<>> ELSE RecordBlock \o Blocks(r - 1)

BaseFiles ==
    {Blocks(r) : r \in 0..MaxRecords}
    \cup {SubSeq(Blocks(r), 1, BlockLines * r - 1) : r \in 1..MaxRecords}

EditLines ==
    {BlankLine, JunkLine, KeyLine(expected_keys[1]),
     NoColonLine(expected_keys[1]), KeyLine(expected_keys[RecordLines])}

EditsOf(f) ==
    {[f EXCEPT ![p] = l] : p \in 1..Len(f), l \in EditLines}
    \cup {SubSeq(f, 1, p - 1) \o SubSeq(f, p + 1, Len(f)) : p \in 1..Len(f)}
    \cup {SubSeq(f, 1, p) \o <<l>> \o SubSeq(f, p + 1, Len(f)) :
            p \in 0..Len(f), l \in EditLines}

RECURSIVE EditedFiles(_)
EditedFiles(n) ==
    IF n = 0 THEN BaseFiles
    ELSE LET prev == EditedFiles(n - 1)
         IN  prev \cup UNION {EditsOf(f) : f \in prev}

VInit ==
    /\ v_lines \in EditedFiles(MaxEdits)
    /\ v_result = [valid |-> FALSE, msg |-> "unset"]
    /\ v_pc = "start"

VIdle ==
    /\ v_lines = <<>>
    /\ v_result = [valid |-> FALSE, msg |-> "unset"]
    /\ v_pc = "idle"

Validate ==
    /\ v_pc = "start"
    /\ v_result' = validate_wine_reviews(v_lines)
    /\ v_pc' = "done"
    /\ UNCHANGED v_lines
    /\ UNCHANGED <<rvars, cvars>>

(***************************************************************************)
(* Specifications.                                                         *)
(***************************************************************************)
Init == RInit /\ CIdle /\ VIdle

Next ==
    \/ Start
    \/ Pass1Call
    \/ MergeCheck
    \/ Pass2Call
    \/ Finish

Spec == Init /\ [][Next]_vars

ChunkInit == RIdle /\ CInit /\ VIdle

ChunkNext == ChunkText

ChunkSpec == ChunkInit /\ [][ChunkNext]_vars

ValidateInit == RIdle /\ CIdle /\ VInit

ValidateNext == Validate

ValidateSpec == ValidateInit /\ [][ValidateNext]_vars

(***************************************************************************)
(* Properties.                                                             *)
(***************************************************************************)
RECURSIVE ConcatAll(_)
ConcatAll(seqs) ==
    IF seqs = <<>> THEN <<>> ELSE Head(seqs) \o ConcatAll(Tail(seqs))

\* The chunk a logged call was made for, and that chunk's token length.
ChunkOfCall(c) ==
    IF c.req.pass = 1 THEN chunks[c.req.chunk] ELSE combined_chunks[c.req.chunk]
ChunkLenOfCall(c) == Len(ChunkOfCall(c))
CallIds == 1..Len(calls)

\* The summaries of the last pass summarize_group ran.
LastPassSummaries == IF Len(summaries) > 1 THEN final_summaries ELSE summaries

\* C1 (as claimed): when summarize_group returns, its last pass produced
\* exactly one summary and that summary is the value returned.
C1_FinalPassSingleSummary ==
    pc = "done" =>
        /\ Len(LastPassSummaries) = 1
        /\ summary_text = LastPassSummaries[1]

\* C2: every window chunk_text cuts holds at most max_tokens tokens, every
\* window but the last holds exactly max_tokens, and no window is empty.
C2_ChunkBound ==
    c_pc = "done" =>
        \A k \in 1..Len(c_windows) :
            /\ Len(c_windows[k]) <= c_max_tokens
            /\ Len(c_windows[k]) >= 1
            /\ k < Len(c_windows) => Len(c_windows[k]) = c_max_tokens

C2_Witness ==
    /\ c_pc = "done"
    /\ Len(c_windows) >= 3
    /\ Len(c_windows[Len(c_windows)]) < c_max_tokens

\* C3: the windows chunk_text cuts, concatenated in order, are the token
\* sequence of the combined text, and the decoded chunks, concatenated in
\* order, are the pieces of the combined text.
C3_ChunkCoverage ==
    c_pc = "done" =>
        /\ ConcatAll(c_windows) = c_tokens
        /\ c_tokens = <<BOS>> \o ConcatAll(c_texts) \o <<EOS>>
        /\ ConcatAll(c_chunks) = ConcatAll(c_texts)

C3_Witness ==
    /\ c_pc = "done"
    /\ Len(c_windows) >= 3
    /\ \E i, j \in 1..Len(c_tokens) : c_tokens[i] = "a" /\ c_tokens[j] = "b"

\* C4 (as claimed): every call passes
\* max_length = min(max_len, max(min_len + 5, round(0.8 * chunk length)))
\* and min_length = min_len.
C4_RoundedBudget ==
    \A n \in CallIds :
        /\ calls[n].req.max_length =
               Min(max_len, Max(min_len + 5, (8 * ChunkLenOfCall(calls[n]) + 5) \div 10))
        /\ calls[n].req.min_length = min_len

\* C4 (amended): every call passes
\* max_length = min(max_len, max(min_len + 5, floor(0.8 * chunk length)))
\* and min_length = min_len.
C4_TruncatedBudget ==
    \A n \in CallIds :
        /\ calls[n].req.max_length =
               Min(max_len, Max(min_len + 5, (4 * ChunkLenOfCall(calls[n])) \div 5))
        /\ calls[n].req.min_length = min_len

\* A call whose budget is the scaled chunk length, where rounding and
\* truncation differ and max_len admits either.
C4_Witness ==
    \E n \in CallIds :
        LET len == ChunkLenOfCall(calls[n])
        IN  /\ (4 * len) \div 5 >= min_len + 5
            /\ (8 * len + 5) \div 10 > (4 * len) \div 5
            /\ max_len >= (8 * len + 5) \div 10
            /\ calls[n].req.max_length = (4 * len) \div 5

\* C5 (as claimed): every budget handed to the capability has
\* min_length <= max_length <= max_len and max_length > min_len.
C5_BudgetOrdered ==
    \A n \in CallIds :
        /\ calls[n].req.min_length <= calls[n].req.max_length
        /\ calls[n].req.max_length <= max_len
        /\ calls[n].req.max_length > min_len

\* C6 (as claimed): for an empty list of source texts no call is made and
\* summarize_group does not return a summary.
C6_EmptyGroupFails ==
    review_texts = <<>> => (calls = <<>> /\ pc # "done")

\* C7: a failed capability call is the last call made, it ends
\* summarize_group with the exception, and no summary is returned.
C7_FailureFailsGroup ==
    \A n \in CallIds :
        ~calls[n].ok =>
            /\ n = Len(calls)
            /\ pc = "raised"
            /\ summary_text = Unset

\* A call fails after another chunk's summary was already obtained.
C7_Witness ==
    /\ pc = "raised"
    /\ Len(calls) >= 2
    /\ calls[1].ok
    /\ Len(calls[1].result) > 0
    /\ ~calls[Len(calls)].ok

\* C8: when the combined text encodes to at most max_tokens tokens (the two
\* special tokens included), there is one chunk, no merge pass, at most one
\* call, and the value returned is that call's result.
C8_SingleChunkPath ==
    Len(ChunkTokens(review_texts)) <= DefaultMaxTokens =>
        /\ pc # "pass2"
        /\ Len(calls) <= 1
        /\ pc # "start" => Len(chunks) = 1
        /\ pc = "done" =>
              /\ Len(calls) = 1
              /\ calls[1].req.pass = 1
              /\ calls[1].req.text = Intro \o JoinSpace(review_texts)
              /\ summary_text = calls[1].result

C8_Witness ==
    /\ pc = "done"
    /\ Len(ChunkTokens(review_texts)) = DefaultMaxTokens
    /\ Len(summary_text) > 0

\* C10 (as claimed): every text handed to the capability has at most
\* max_tokens tokens.
C10_TextWithinWindow ==
    \A n \in CallIds : Len(encode(calls[n].req.text, FALSE)) <= DefaultMaxTokens

\* C10 (amended): every text handed to the capability is the instruction
\* prefix followed by a chunk of at most max_tokens tokens, so it has at most
\* max_tokens tokens more than the prefix.
C10_ChunkWithinWindow ==
    \A n \in CallIds :
        LET text == calls[n].req.text
        IN  /\ Len(text) >= IntroLen
            /\ SubSeq(text, 1, IntroLen) = Intro
            /\ SubSeq(text, IntroLen + 1, Len(text)) = ChunkOfCall(calls[n])
            /\ Len(text) - IntroLen <= DefaultMaxTokens
            /\ Len(text) <= IntroLen + DefaultMaxTokens

\* Calls in both passes whose chunk fills the window.
C10_Witness ==
    /\ \E n \in CallIds :
          calls[n].req.pass = 1 /\ ChunkLenOfCall(calls[n]) = DefaultMaxTokens
    /\ \E n \in CallIds :
          calls[n].req.pass = 2 /\ ChunkLenOfCall(calls[n]) = DefaultMaxTokens - 1

\* The format the validator is documented to accept: records of 9 key lines
\* in the fixed order, each followed by a blank line, the blank line after
\* the last record optional.
WellFormed(lines) ==
    /\ \/ Len(lines) % BlockLines = 0
       \/ (Len(lines) + 1) % BlockLines = 0
    /\ \A p \in 1..Len(lines) :
          IF p % BlockLines = 0 THEN lines[p] = BlankLine
          ELSE StartsWithKey(lines[p], expected_keys[p % BlockLines])

\* C9 (as claimed): validate_wine_reviews succeeds exactly on the files of
\* that format.
C9_ValidIffWellFormed ==
    v_pc = "done" => (v_result.valid <=> WellFormed(v_lines))
====
